---- MODULE Spec2Model ----
(***************************************************************************)
(* Ninja Go Local Cloud (src/src/ninjacloud.go): the /file/ and            *)
(* /directory/ request handlers, the path guard (osPath, isInRoot) and the *)
(* recursive directory listing (listDir), over an abstract filesystem.     *)
(*                                                                         *)
(* Strings the code inspects character by character (paths, header values) *)
(* are sequences of one-character strings: "/r/a.t" is                     *)
(* <<"/","r","/","a",".","t">>.  The build modelled is a non-windows one.  *)
(* Errors are named: "nil", the sentinels "ErrExist", "ErrNotExist",       *)
(* "ErrInvalid" (the package-level values of os), and the *PathError       *)
(* values the os calls return, named by their errno ("ENOENT", ...).  A    *)
(* *PathError never compares equal (==) to a sentinel.                     *)
(*                                                                         *)
(* A value the code computes once and uses several times (the result of an *)
(* os call, of a FILESYSTEM function) is the argument of a local operator  *)
(* whose body is the code that follows the call.                           *)
(***************************************************************************)
EXTENDS Integers, Sequences, FiniteSets, TLC

VARIABLES fs, served, pc, inflight, stack, done

vars == <<fs, served, pc, inflight, stack, done>>

---------------------------------------------------------------------------
(* Bounds *)

\* requests accepted in one behaviour
MaxRequests == 2
\* longest URL fragment of GuardSpec
MaxFragLen == 4

---------------------------------------------------------------------------
(* Strings *)

GOOS == "linux"

rootFlag == <<"/", "r">>

Last(s) == s[Len(s)]

Front(s) == SubSeq(s, 1, Len(s) - 1)

Tail2(s, n) == SubSeq(s, n, Len(s))

\* strings.HasPrefix
StringsHasPrefix(s, prefix) ==
    /\ Len(prefix) <= Len(s)
    /\ SubSeq(s, 1, Len(prefix)) = prefix

\* filepath.HasPrefix, unix build: strings.HasPrefix
FilepathHasPrefix(p, prefix) == StringsHasPrefix(p, prefix)

\* strings.Split(s, sep) for a one-character sep: every field, empty ones too
RECURSIVE SplitFrom(_, _, _, _)
SplitFrom(s, sep, i, cur) ==
    IF i > Len(s) THEN <<cur>>
    ELSE IF s[i] = sep THEN <<cur>> \o SplitFrom(s, sep, i + 1, <<>>)
    ELSE SplitFrom(s, sep, i + 1, Append(cur, s[i]))

Split(s, sep) == SplitFrom(s, sep, 1, <<>>)

RECURSIVE Join(_, _)
Join(segs, sep) ==
    IF segs = <<>> THEN <<>>
    ELSE IF Len(segs) = 1 THEN segs[1]
    ELSE segs[1] \o <<sep>> \o Join(Tail(segs), sep)

NonEmpty(s) == s # <<>>

\* the elements of a path: what lies between its separators
Segs(p) == SelectSeq(Split(p, "/"), NonEmpty)

Rooted(p) == Len(p) > 0 /\ p[1] = "/"

\* filepath.Clean's element loop: "." dropped, ".." backs up over the last
\* element, is dropped at the root of a rooted path and kept otherwise
RECURSIVE CleanSegs(_, _, _)
CleanSegs(segs, out, rooted) ==
    IF segs = <<>> THEN out
    ELSE LET s == Head(segs) IN
         IF s = <<".">> THEN CleanSegs(Tail(segs), out, rooted)
         ELSE IF s = <<".", ".">> THEN
              IF out # <<>> /\ Last(out) # <<".", ".">>
              THEN CleanSegs(Tail(segs), Front(out), rooted)
              ELSE IF rooted THEN CleanSegs(Tail(segs), out, rooted)
              ELSE CleanSegs(Tail(segs), Append(out, s), rooted)
         ELSE CleanSegs(Tail(segs), Append(out, s), rooted)

\* filepath.Clean, unix build
Clean(p) ==
    LET Joined(out) ==
          IF Rooted(p) THEN <<"/">> \o Join(out, "/")
          ELSE IF out = <<>> THEN <<".">>
          ELSE Join(out, "/")
    IN Joined(CleanSegs(Segs(p), <<>>, Rooted(p)))

\* filepath.Ext: the suffix from the last dot of the last element, or empty
RECURSIVE ExtFrom(_, _)
ExtFrom(name, i) ==
    IF i < 1 \/ name[i] = "/" THEN <<>>
    ELSE IF name[i] = "." THEN Tail2(name, i)
    ELSE ExtFrom(name, i - 1)

Ext(name) == ExtFrom(name, Len(name))

\* sliceContains comparing the first element only
sliceContainsFirst(s, c) == Len(s) > 0 /\ c = s[1]

sliceContains(s, c) == \E i \in 1..Len(s) : c = s[i]

\* the byte order of the characters in use
ByteOrder == <<".", "/", ";", "a", "b", "d", "e", "j", "m", "n", "p", "r", "s", "t", "x", "y">>

CharRank(c) == CHOOSE i \in 1..Len(ByteOrder) : ByteOrder[i] = c

\* a <= b as byte strings: the order ioutil.ReadDir sorts names in
RECURSIVE StrLeq(_, _)
StrLeq(a, b) ==
    IF a = <<>> THEN TRUE
    ELSE IF b = <<>> THEN FALSE
    ELSE IF a[1] = b[1] THEN StrLeq(Tail(a), Tail(b))
    ELSE CharRank(a[1]) < CharRank(b[1])

RECURSIVE SortNames(_)
SortNames(S) ==
    IF S = {} THEN <<>>
    ELSE LET m == CHOOSE x \in S : \A y \in S : StrLeq(x, y)
         IN <<m>> \o SortNames(S \ {m})

---------------------------------------------------------------------------
(* The filesystem: a function from the canonical absolute paths that exist *)
(* to their nodes.  There are no symbolic links and no permission bits;    *)
(* timestamps are not kept (a comparison against one can go either way).   *)

SlashRoot == <<"/">>

DirNode == [kind |-> "dir", content |-> <<>>]

FileNode(content) == [kind |-> "file", content |-> content]

Child(cur, name) == IF cur = SlashRoot THEN cur \o name ELSE cur \o <<"/">> \o name

\* the place of the last separator of a canonical path
RECURSIVE LastSlash(_, _)
LastSlash(key, i) == IF i <= 1 \/ key[i] = "/" THEN i ELSE LastSlash(key, i - 1)

\* the directory holding key; the filesystem root holds itself
Parent(key) ==
    LET i == LastSlash(key, Len(key)) IN
    IF i <= 1 THEN SlashRoot ELSE SubSeq(key, 1, i - 1)

BaseName(key) == Tail2(key, LastSlash(key, Len(key)) + 1)

\* key is dir or lies below it
Under(key, dir) ==
    \/ key = dir
    \/ StringsHasPrefix(key, IF dir = SlashRoot THEN dir ELSE dir \o <<"/">>)

\* the kernel's path walk: every element but the last must be an existing
\* directory; the last may be missing (key is then not in DOMAIN f)
RECURSIVE Walk(_, _, _)
Walk(f, segs, cur) ==
    IF segs = <<>> THEN [err |-> "nil", key |-> cur]
    ELSE IF cur \notin DOMAIN f THEN [err |-> "ENOENT", key |-> cur]
    ELSE IF f[cur].kind # "dir" THEN [err |-> "ENOTDIR", key |-> cur]
    ELSE LET s == Head(segs) IN
         IF s = <<".">> THEN Walk(f, Tail(segs), cur)
         ELSE IF s = <<".", ".">> THEN Walk(f, Tail(segs), Parent(cur))
         ELSE Walk(f, Tail(segs), Child(cur, s))

\* the walk of a path from the filesystem root (the working directory of the
\* process, for a relative path); the empty path names nothing
Resolve(f, p) ==
    IF p = <<>> THEN [err |-> "ENOENT", key |-> <<>>]
    ELSE Walk(f, Segs(p), SlashRoot)

\* os.Stat
Stat(f, p) ==
    LET Found(w) ==
          IF w.err # "nil" THEN w
          ELSE IF w.key \notin DOMAIN f THEN [err |-> "ENOENT", key |-> w.key]
          ELSE w
    IN Found(Resolve(f, p))

\* os.IsNotExist
IsNotExist(err) == err \in {"ENOENT", "ErrNotExist"}

Put(f, key, node) == [k \in DOMAIN f \cup {key} |-> IF k = key THEN node ELSE f[k]]

Drop(f, keys) == [k \in DOMAIN f \ keys |-> f[k]]

Subtree(f, key) == {k \in DOMAIN f : Under(k, key)}

\* os.OpenFile(path, O_WRONLY|O_CREATE|O_TRUNC) followed by a write of content
OsWriteFile(f, p, content) ==
    LET Write(w) ==
          IF w.err # "nil" THEN [err |-> w.err, fs |-> f]
          ELSE IF w.key \in DOMAIN f /\ f[w.key].kind = "dir" THEN [err |-> "EISDIR", fs |-> f]
          ELSE [err |-> "nil", fs |-> Put(f, w.key, FileNode(content))]
    IN Write(Resolve(f, p))

\* os.Remove: a file or an empty directory
OsRemove(f, p) ==
    LET Remove(w) ==
          IF w.err # "nil" THEN [err |-> w.err, fs |-> f]
          ELSE IF Subtree(f, w.key) # {w.key} THEN [err |-> "ENOTEMPTY", fs |-> f]
          ELSE [err |-> "nil", fs |-> Drop(f, {w.key})]
    IN Remove(Stat(f, p))

\* os.RemoveAll: the path and all below it; a missing path is no error
OsRemoveAll(f, p) ==
    LET Remove(w) ==
          IF IsNotExist(w.err) THEN [err |-> "nil", fs |-> f]
          ELSE IF w.err # "nil" THEN [err |-> w.err, fs |-> f]
          ELSE [err |-> "nil", fs |-> Drop(f, Subtree(f, w.key))]
    IN Remove(Stat(f, p))

\* os.Rename
OsRename(f, source, dest) ==
    LET Moved(s, d, moved, rest) ==
          LET to(k) == d.key \o Tail2(k, Len(s.key) + 1) IN
          [k \in DOMAIN rest \cup {to(m) : m \in moved} |->
             IF k \in DOMAIN rest THEN rest[k] ELSE f[CHOOSE m \in moved : to(m) = k]]
        Rename(s, d) ==
          IF s.err # "nil" THEN [err |-> s.err, fs |-> f]
          ELSE IF d.err # "nil" THEN [err |-> d.err, fs |-> f]
          ELSE IF d.key = s.key THEN [err |-> "nil", fs |-> f]
          ELSE IF Under(d.key, s.key) THEN [err |-> "EINVAL", fs |-> f]
          ELSE IF d.key \in DOMAIN f /\ f[s.key].kind = "dir" /\ f[d.key].kind # "dir"
               THEN [err |-> "ENOTDIR", fs |-> f]
          ELSE IF d.key \in DOMAIN f /\ f[s.key].kind # "dir" /\ f[d.key].kind = "dir"
               THEN [err |-> "EISDIR", fs |-> f]
          ELSE IF d.key \in DOMAIN f /\ Subtree(f, d.key) # {d.key}
               THEN [err |-> "ENOTEMPTY", fs |-> f]
          ELSE [err |-> "nil",
                fs |-> Moved(s, d, Subtree(f, s.key),
                             Drop(f, Subtree(f, s.key) \cup {d.key}))]
    IN Rename(Stat(f, source), Resolve(f, dest))

\* os.MkdirAll: an existing directory is no error; missing parents are made
RECURSIVE MkdirFrom(_, _, _)
MkdirFrom(f, segs, cur) ==
    IF segs = <<>> THEN [err |-> "nil", fs |-> f]
    ELSE LET c == Child(cur, Head(segs)) IN
         IF c \in DOMAIN f /\ f[c].kind # "dir" THEN [err |-> "ENOTDIR", fs |-> f]
         ELSE MkdirFrom(IF c \in DOMAIN f THEN f ELSE Put(f, c, DirNode), Tail(segs), c)

OsMkdirAll(f, p) == MkdirFrom(f, Segs(Clean(p)), SlashRoot)

\* ioutil.ReadDir: the children, sorted by name; nil with the error
OsReadDir(f, p) ==
    LET Entries(dir, names) ==
          [i \in 1..Len(names) |->
             LET n == f[Child(dir, names[i])] IN
             [name |-> names[i], isDir |-> n.kind = "dir", size |-> Len(n.content)]]
        Read(w) ==
          IF w.err # "nil" THEN [err |-> w.err, entries |-> <<>>]
          ELSE IF f[w.key].kind # "dir" THEN [err |-> "ENOTDIR", entries |-> <<>>]
          ELSE [err |-> "nil",
                entries |-> Entries(w.key,
                    SortNames({BaseName(k) : k \in {c \in DOMAIN f : c # w.key
                                                      /\ Parent(c) = w.key}}))]
    IN Read(Stat(f, p))

---------------------------------------------------------------------------
(* FILESYSTEM functions of the program.  Each yields its error, the        *)
(* filesystem it leaves and the os calls it made, in order.                *)

Op(name, path, err) == [op |-> name, path |-> path, err |-> err]

\* exist: true unless Stat's error is a not-exist error
exist(f, path) == ~IsNotExist(Stat(f, path).err)

\* isInRoot
isInRoot(path) == FilepathHasPrefix(path, rootFlag)

\* writeFile without its existence test
writeFileUnchecked(f, path, overwrite) == "nil"

\* writeFile, its existence test: the error it returns at once, or "nil"
writeFileCheck(f, path, overwrite) ==
    IF ~overwrite
    THEN (IF exist(f, path) THEN "ErrExist" ELSE "nil")
    ELSE (IF ~exist(f, path) THEN "ErrNotExist" ELSE "nil")

\* writeFile, its ioutil.WriteFile
writeFileWrite(f, path, content) == OsWriteFile(f, path, content)

removeFile(f, path) ==
    LET Result(r) == [err |-> r.err, fs |-> r.fs, ops |-> <<Op("Remove", path, r.err)>>]
    IN Result(OsRemove(f, path))

moveFile(f, source, dest) ==
    LET Result(r) ==
          [err |-> r.err, fs |-> r.fs,
           ops |-> <<Op("Rename", source, r.err), Op("RenameTo", dest, r.err)>>]
    IN Result(OsRename(f, source, dest))

copyFile(f, source, dest) ==
    LET Opened(df) == <<Op("Open", source, "nil"), Op("Create", dest, df.err)>>
        Create(sf, df) ==
          IF df.err # "nil" THEN [err |-> df.err, fs |-> f, ops |-> Opened(df)]
          ELSE IF df.fs[sf.key].kind = "dir"
               THEN [err |-> "EISDIR", fs |-> df.fs, ops |-> Opened(df)]
          ELSE [err |-> "nil",
                fs |-> Put(df.fs, Resolve(df.fs, dest).key,
                           FileNode(df.fs[sf.key].content)),
                ops |-> Opened(df)]
        Open(sf) ==
          IF sf.err # "nil"
          THEN [err |-> sf.err, fs |-> f, ops |-> <<Op("Open", source, sf.err)>>]
          ELSE Create(sf, OsWriteFile(f, dest, <<>>))
    IN Open(Stat(f, source))

createDir(f, path) ==
    LET Result(r) == [err |-> r.err, fs |-> r.fs, ops |-> <<Op("MkdirAll", path, r.err)>>]
    IN Result(OsMkdirAll(f, path))

removeDir(f, path) ==
    LET Result(r) == [err |-> r.err, fs |-> r.fs, ops |-> <<Op("RemoveAll", path, r.err)>>]
    IN Result(OsRemoveAll(f, path))

moveDir(f, source, dest) == moveFile(f, source, dest)

\* copyDir up to its loop: the tests of source and dest, MkdirAll and ReadDir
copyDirOpen(f, source, dest) ==
    LET Fail(err, ops) == [err |-> err, fs |-> f, ops |-> ops, entries |-> <<>>]
        Read(ops, mk, rd) ==
          [err |-> rd.err, fs |-> mk.fs,
           ops |-> Append(ops, Op("ReadDir", source, rd.err)),
           entries |-> [i \in 1..Len(rd.entries) |->
                          [isDir |-> rd.entries[i].isDir,
                           sfp |-> source \o <<"/">> \o rd.entries[i].name,
                           dfp |-> dest \o <<"/">> \o rd.entries[i].name]]]
        Mkdir(ops, mk) ==
          IF mk.err # "nil" THEN Fail(mk.err, ops)
          ELSE Read(ops, mk, OsReadDir(mk.fs, source))
        Open(ops, od) ==
          IF ~IsNotExist(od.err) THEN Fail("ErrExist", ops)
          ELSE Mkdir(Append(ops, Op("MkdirAll", dest, OsMkdirAll(f, dest).err)),
                     OsMkdirAll(f, dest))
        Test(fi) ==
          IF fi.err # "nil" THEN Fail(fi.err, <<Op("Stat", source, fi.err)>>)
          ELSE IF f[fi.key].kind # "dir"
               THEN Fail("ErrInvalid", <<Op("Stat", source, fi.err)>>)
          ELSE Open(<<Op("Stat", source, fi.err), Op("Open", dest, Stat(f, dest).err)>>,
                    Stat(f, dest))
    IN Test(Stat(f, source))

\* copyDir's loops, depth first: pending holds the entries still to copy, those
\* of the innermost directory first; the first error ends the whole copy
RECURSIVE copyEntries(_, _, _)
copyEntries(f, pending, ops) ==
    LET Copied(c, inner) ==
          IF c.err # "nil" THEN [err |-> c.err, fs |-> c.fs, ops |-> ops \o c.ops]
          ELSE copyEntries(c.fs, inner \o Tail(pending), ops \o c.ops)
        Dir(d) == Copied(d, d.entries)
        Entry(entry) ==
          IF entry.isDir THEN Dir(copyDirOpen(f, entry.sfp, entry.dfp))
          ELSE Copied(copyFile(f, entry.sfp, entry.dfp), <<>>)
    IN IF pending = <<>> THEN [err |-> "nil", fs |-> f, ops |-> ops]
       ELSE Entry(Head(pending))

copyDir(f, source, dest) ==
    copyEntries(f, <<[isDir |-> TRUE, sfp |-> source, dfp |-> dest]>>, <<>>)

---------------------------------------------------------------------------
(* listDir.  One activation of listDir is a frame; the only step of it     *)
(* that touches the filesystem is its ioutil.ReadDir, so a listing runs    *)
(* from one ReadDir to the next in one step.                               *)

Digits == <<"0", "1", "2", "3", "4", "5", "6", "7", "8", "9">>

\* strconv.FormatInt(n, 10), n >= 0
RECURSIVE FormatInt(_)
FormatInt(n) ==
    IF n < 10 THEN <<Digits[n + 1]>>
    ELSE FormatInt(n \div 10) \o <<Digits[(n % 10) + 1]>>

\* element{}: the zero value
ZeroElement ==
    [Type |-> "", Name |-> <<>>, Uri |-> <<>>, Size |-> <<>>, Writable |-> "",
     Children |-> <<>>]

Element(type, d, uri) ==
    [Type |-> type, Name |-> d.name, Uri |-> uri, Size |-> FormatInt(d.size),
     Writable |-> "true", Children |-> <<>>]

\* a frame whose ReadDir is still to be done
NewFrame(path) == [path |-> path, entries |-> <<>>, i |-> 1, list |-> <<>>, e |-> ZeroElement]

returnAll(returnType) == returnType = "all" \/ returnType = ""

returnFiles(returnType) == returnType = "files" \/ returnAll(returnType)

returnDirs(returnType) == returnType = "directories" \/ returnAll(returnType)

Running(st) == [st |-> st, fin |-> FALSE, list |-> <<>>, err |-> "nil"]

RECURSIVE listLoop(_, _)
RECURSIVE listReturn(_, _, _, _)
\* the loop of the top frame from its i-th entry on, up to the next ReadDir
\* or the return of the outermost call; a holds recursive, filter, returnType
listLoop(st, a) ==
    LET n == Len(st)
        f == st[n]
    IN
    IF f.i > Len(f.entries) THEN listReturn(Front(st), f.list, "nil", a)
    ELSE
    LET d == f.entries[f.i]
        uri == Clean(f.path \o <<"/">> \o d.name)
    IN
    IF d.isDir /\ returnDirs(a.returnType) THEN
        LET e == Element("directory", d, uri)
            l1 == Append(f.list, ZeroElement)
        IN
        IF a.recursive
        THEN Running(Append([st EXCEPT ![n] = [f EXCEPT !.list = l1, !.e = e]],
                            NewFrame(uri)))
        ELSE listLoop([st EXCEPT ![n] = [f EXCEPT !.list = Append(l1, e),
                                                   !.i = f.i + 1]], a)
    ELSE IF ~d.isDir /\ returnFiles(a.returnType) /\ sliceContains(a.filter, Ext(d.name))
    THEN listLoop([st EXCEPT ![n] = [f EXCEPT !.list = Append(f.list, Element("file", d, uri)),
                                               !.i = f.i + 1]], a)
    ELSE listLoop([st EXCEPT ![n] = [f EXCEPT !.i = f.i + 1]], a)

\* a call returns (list, err) to the frame below it, st being the frames left
listReturn(st, list, err, a) ==
    IF st = <<>> THEN [st |-> st, fin |-> TRUE, list |-> list, err |-> err]
    ELSE
    LET n == Len(st)
        f == st[n]
        e == [f.e EXCEPT !.Children = list]
    IN
    IF err # "nil" THEN listReturn(Front(st), f.list, err, a)
    ELSE listLoop([st EXCEPT ![n] = [f EXCEPT !.list = Append(f.list, e),
                                               !.i = f.i + 1,
                                               !.e = ZeroElement]], a)

\* what follows the ReadDir of the top frame, rd being what it returned
listRead(rd, st, a) ==
    LET n == Len(st) IN
    IF rd.err # "nil" THEN listReturn(Front(st), <<>>, rd.err, a)
    ELSE listLoop([st EXCEPT ![n] = [st[n] EXCEPT !.entries = rd.entries]], a)

---------------------------------------------------------------------------
(* REQUEST HANDLERS *)

\* osPath: the result of filepath.Clean is dropped
osPath(p) ==
    IF GOOS = "windows" THEN SubSeq(p, 1, 1) \o <<":">> \o Tail2(p, 2)
    ELSE <<"/">> \o p

StatusOK == 200
StatusCreated == 201
StatusNoContent == 204
StatusMovedPermanently == 301
StatusNotModified == 304
StatusBadRequest == 400
StatusForbidden == 403
StatusNotFound == 404
StatusInternalServerError == 500

\* the status a response carries: that of the first WriteHeader call (later
\* calls are ignored), or 200 when the handler made none
WriteHeaders(calls) == IF calls = <<>> THEN StatusOK ELSE calls[1]

\* "if err == os.ErrNotExist { 404; return } else if err != nil { 500; return }"
NotFoundOr500(err) ==
    IF err = "ErrNotExist" THEN StatusNotFound ELSE StatusInternalServerError

NoBody == [kind |-> "none"]

\* a request: its handler, method, URL fragment (what follows /file/ or
\* /directory/), body and the headers the handlers read
Request(handler, method, frag) ==
    [handler |-> handler, method |-> method, frag |-> frag, body |-> <<>>,
     sourceURI |-> <<>>, overwrite |-> "", deleteSource |-> "", modSince |-> "",
     checkOnly |-> "", getInfo |-> "", recursive |-> "", filters |-> <<>>,
     returnType |-> "", operation |-> ""]

NoRequest == Request("none", "", <<>>)

\* the URL fragments of Spec: clean, as http.ServeMux hands them on (it
\* redirects a path holding "." or ".." elements or doubled separators)
Fragments ==
    { <<"r">>,
      <<"r", "/", "a", ".", "t">>,
      <<"r", "/", "d">>,
      <<"r", "/", "n">>,
      <<"e", "/", "p">> }

Bodies == { <<"x">>, <<"y", "y">> }

FileSources == { <<"/", "e", "/", "p">>, <<"/", "r", "/", "a", ".", "t">> }

\* the sourceURI of a directory PUT; dirHandler does not test it for absence
DirSources == { <<>>, <<"/", "e">>, <<"/", "r", "/", "d">> }

Flags == {"", "true"}

Filters == { <<>>, <<".", "t">>, <<".", "t", ";", ".", "j">> }

ReturnTypes == {"", "files", "directories", "x"}

Operations == {"move", "copy", ""}

\* the header sets of a GET: one request for each branch of the handler's
\* if-chain, and every combination of the headers listDir reads
GetHeaders(r) ==
    { r,
      [r EXCEPT !.modSince = "5"],
      [r EXCEPT !.modSince = "none"],
      [r EXCEPT !.checkOnly = "true"] }

FileGetRequests(frag) ==
    LET r == Request("file", "GET", frag) IN
    GetHeaders(r) \cup { [r EXCEPT !.getInfo = "true"] }

DirGetRequests(frag) ==
    LET r == Request("dir", "GET", frag) IN
    GetHeaders(r) \cup
    { [r EXCEPT !.recursive = rec, !.filters = flt, !.returnType = rt] :
        rec \in Flags, flt \in Filters, rt \in ReturnTypes }

\* the requests in progress at one time: net/http runs each request in a
\* goroutine of its own
WorkerOrder == <<"w1", "w2">>

Workers == { WorkerOrder[i] : i \in 1..Len(WorkerOrder) }

\* the filesystem at start: /r is the served root, /rx a sibling of it and
\* /e lies outside
InitFs ==
    LET dirs == { SlashRoot, <<"/", "r">>, <<"/", "r", "/", "d">>,
                  <<"/", "r", "/", "d", "/", "e">>, <<"/", "e">> }
        files == { <<"/", "r", "/", "a", ".", "t">>, <<"/", "r", "/", "b", ".", "j">>,
                   <<"/", "r", "/", "m">>, <<"/", "r", "x">>, <<"/", "e", "/", "p">> }
    IN [k \in dirs \cup files |-> IF k \in dirs THEN DirNode ELSE FileNode(<<"s">>)]

\* what is kept of a served request: the request, the path the handler
\* derived, the response, the os calls made, and of a listing the arguments,
\* the result (list, err) of the outermost listDir and what its ReadDir read
Served(r, p, status, body, ops) ==
    [req |-> r, p |-> p, status |-> status, body |-> body, ops |-> ops,
     listed |-> FALSE, args |-> <<>>, list |-> <<>>, err |-> "nil", entries |-> <<>>]

NoResponse == Served(NoRequest, <<>>, 0, NoBody, <<>>)

Idle == [req |-> NoRequest, p |-> <<>>, ops |-> <<>>, entries |-> <<>>]

Init ==
    /\ fs = InitFs
    /\ served = 0
    /\ pc = [w \in Workers |-> "idle"]
    /\ inflight = [w \in Workers |-> Idle]
    /\ stack = [w \in Workers |-> <<>>]
    /\ done = NoResponse

\* a new request runs in the first idle worker (which one is immaterial),
\* once the last finished response has been sent
Accepts(w) ==
    /\ served < MaxRequests
    /\ done = NoResponse
    /\ \E i \in 1..Len(WorkerOrder) :
         /\ WorkerOrder[i] = w
         /\ pc[w] = "idle"
         /\ \A j \in 1..(i - 1) : pc[WorkerOrder[j]] # "idle"

\* the handler returns: the response is complete
Finish(w, d, f) ==
    /\ done' = d
    /\ fs' = f
    /\ pc' = [pc EXCEPT ![w] = "idle"]
    /\ inflight' = [inflight EXCEPT ![w] = Idle]
    /\ stack' = [stack EXCEPT ![w] = <<>>]

Forbidden(r, p) == Served(r, p, WriteHeaders(<<StatusForbidden>>), NoBody, <<>>)

\* the handler has called writeFile, whose existence test passed: the
\* ioutil.WriteFile is still to come
BeginWrite(w, r, p, log) ==
    /\ pc' = [pc EXCEPT ![w] = "write"]
    /\ inflight' = [inflight EXCEPT ![w] = [Idle EXCEPT !.req = r, !.p = p, !.ops = log]]
    /\ UNCHANGED <<fs, stack, done>>

\* fileHandler, POST: create a new file
FilePost(w) ==
    \E frag \in Fragments, body \in Bodies :
      LET r == [Request("file", "POST", frag) EXCEPT !.body = body]
          p == osPath(frag)
          c == writeFileCheck(fs, p, FALSE)
          log == <<Op("Stat", p, Stat(fs, p).err)>>
      IN
      /\ Accepts(w)
      /\ served' = served + 1
      /\ IF ~isInRoot(p) THEN Finish(w, Forbidden(r, p), fs)
         ELSE IF c = "ErrExist"
         THEN Finish(w, Served(r, p, WriteHeaders(<<StatusBadRequest, StatusCreated>>),
                               NoBody, log), fs)
         ELSE BeginWrite(w, r, p, log)

\* fileHandler, PUT without sourceURI: save over an existing file
FilePutUpdate(w) ==
    \E frag \in Fragments, body \in Bodies :
      LET r == [Request("file", "PUT", frag) EXCEPT !.body = body]
          p == osPath(frag)
          c == writeFileCheck(fs, p, TRUE)
          log == <<Op("Stat", p, Stat(fs, p).err)>>
      IN
      /\ Accepts(w)
      /\ served' = served + 1
      /\ IF ~isInRoot(p) THEN Finish(w, Forbidden(r, p), fs)
         ELSE IF c = "ErrNotExist"
         THEN Finish(w, Served(r, p, WriteHeaders(<<StatusNotFound, StatusNoContent>>),
                               NoBody, log), fs)
         ELSE BeginWrite(w, r, p, log)

\* writeFile's ioutil.WriteFile and the rest of the POST or PUT handler
WriteStep(w) ==
    /\ pc[w] = "write"
    /\ done = NoResponse
    /\ LET c == inflight[w]
           Written(wr) ==
             Finish(w, Served(c.req, c.p,
                              IF wr.err # "nil" THEN WriteHeaders(<<StatusInternalServerError>>)
                              ELSE IF c.req.method = "POST" THEN WriteHeaders(<<StatusCreated>>)
                              ELSE WriteHeaders(<<StatusNoContent>>),
                              NoBody, Append(c.ops, Op("WriteFile", c.p, wr.err))), wr.fs)
       IN Written(writeFileWrite(fs, c.p, c.req.body))
    /\ UNCHANGED served

\* fileHandler, PUT with sourceURI: copy or move an existing file
FilePutCopyMove(w) ==
    \E frag \in Fragments, source \in FileSources, ow \in Flags, del \in Flags :
      LET r == [Request("file", "PUT", frag) EXCEPT !.sourceURI = source,
                                                    !.overwrite = ow, !.deleteSource = del]
          p == osPath(frag)
          Copied(rm, cm) ==
            Finish(w, Served(r, p, WriteHeaders(<<IF cm.err # "nil" THEN NotFoundOr500(cm.err)
                                                  ELSE StatusNoContent>>), NoBody,
                             rm.ops \o cm.ops), cm.fs)
          Removed(rm) ==
            IF rm.err # "nil"
            THEN Finish(w, Served(r, p, WriteHeaders(<<NotFoundOr500(rm.err)>>), NoBody,
                                  rm.ops), rm.fs)
            ELSE Copied(rm, IF del = "true" THEN moveFile(rm.fs, source, p)
                            ELSE copyFile(rm.fs, source, p))
      IN
      /\ Accepts(w)
      /\ served' = served + 1
      /\ IF ~isInRoot(p) THEN Finish(w, Forbidden(r, p), fs)
         ELSE Removed(IF ow = "true" THEN removeFile(fs, p)
                      ELSE [err |-> "nil", fs |-> fs, ops |-> <<>>])

\* fileHandler, DELETE
FileDelete(w) ==
    \E frag \in Fragments :
      LET r == Request("file", "DELETE", frag)
          p == osPath(frag)
          Removed(rm) ==
            Finish(w, Served(r, p, WriteHeaders(<<IF rm.err # "nil" THEN NotFoundOr500(rm.err)
                                                  ELSE StatusNoContent>>), NoBody, rm.ops),
                   rm.fs)
      IN
      /\ Accepts(w)
      /\ served' = served + 1
      /\ IF ~isInRoot(p) THEN Finish(w, Forbidden(r, p), fs)
         ELSE Removed(removeFile(fs, p))

\* modifiedSince: false when Stat fails, else the comparison of the header
\* with the modification time, which can go either way
modifiedSince(f, path) == IF Stat(f, path).err # "nil" THEN {FALSE} ELSE BOOLEAN

ModSinceSet(v) == v # "" /\ v # "false" /\ v # "none"

\* http.ServeFile: a missing file is 404, a directory named without a
\* trailing separator a redirect, a file is sent
ServeFile(r, p, f) ==
    LET Opened(st, log) ==
          IF st.err # "nil"
          THEN Served(r, p, WriteHeaders(<<IF IsNotExist(st.err) THEN StatusNotFound
                                           ELSE StatusInternalServerError>>), NoBody, log)
          ELSE IF f[st.key].kind = "dir"
          THEN Served(r, p, WriteHeaders(<<StatusMovedPermanently>>), NoBody, log)
          ELSE Served(r, p, WriteHeaders(<<>>),
                      [kind |-> "file", data |-> f[st.key].content], log)
    IN Opened(Stat(f, p), <<Op("Open", p, Stat(f, p).err)>>)

\* fileHandler, GET
FileGet(w) ==
    \E frag \in Fragments : \E r \in FileGetRequests(frag) :
      LET ms == r.modSince
          chk == r.checkOnly
          info == r.getInfo
          p == osPath(frag)
          Get(st, log) ==
            IF ModSinceSet(ms)
            THEN \E m \in modifiedSince(fs, p) :
                   Finish(w, Served(r, p, WriteHeaders(<<IF m THEN StatusOK
                                                         ELSE StatusNotModified>>),
                                    NoBody, log), fs)
            ELSE IF chk = "true"
            THEN Finish(w, Served(r, p, WriteHeaders(<<IF exist(fs, p) THEN StatusNoContent
                                                       ELSE StatusNotFound>>), NoBody, log), fs)
            ELSE IF info # "" /\ info # "false"
            THEN (IF st.err # "nil"
                  THEN Finish(w, Served(r, p, WriteHeaders(<<StatusInternalServerError>>),
                                        NoBody, log), fs)
                  ELSE Finish(w, Served(r, p, WriteHeaders(<<>>),
                                        [kind |-> "info",
                                         size |-> FormatInt(Len(fs[st.key].content))], log), fs))
            ELSE Finish(w, ServeFile(r, p, fs), fs)
      IN
      /\ Accepts(w)
      /\ served' = served + 1
      /\ IF ~isInRoot(p) THEN Finish(w, Forbidden(r, p), fs)
         ELSE Get(Stat(fs, p), <<Op("Stat", p, Stat(fs, p).err)>>)

\* dirHandler, POST: create a new directory
DirPost(w) ==
    \E frag \in Fragments :
      LET r == Request("dir", "POST", frag)
          p == osPath(frag)
          Created(mk) ==
            Finish(w, Served(r, p, WriteHeaders(<<IF mk.err # "nil" THEN StatusBadRequest
                                                  ELSE StatusCreated>>), NoBody, mk.ops),
                   mk.fs)
      IN
      /\ Accepts(w)
      /\ served' = served + 1
      /\ IF ~isInRoot(p) THEN Finish(w, Forbidden(r, p), fs)
         ELSE Created(createDir(fs, p))

\* dirHandler, DELETE
DirDelete(w) ==
    \E frag \in Fragments :
      LET r == Request("dir", "DELETE", frag)
          p == osPath(frag)
          Removed(rm) ==
            Finish(w, Served(r, p, WriteHeaders(<<IF rm.err # "nil" THEN NotFoundOr500(rm.err)
                                                  ELSE StatusNoContent>>), NoBody, rm.ops),
                   rm.fs)
      IN
      /\ Accepts(w)
      /\ served' = served + 1
      /\ IF ~isInRoot(p) THEN Finish(w, Forbidden(r, p), fs)
         ELSE Removed(removeDir(fs, p))

\* the arguments dirHandler passes to listDir
ListArgs(r) ==
    [recursive |-> r.recursive = "true",
     filter |-> Split(r.filters, ";"),
     returnType |-> IF r.returnType = "" THEN "all" ELSE r.returnType]

\* dirHandler after listDir has returned (list, err)
Listed(c, res) ==
    LET e == [ZeroElement EXCEPT !.Type = "directory", !.Name = <<"r", "o", "o", "t">>,
                                 !.Uri = c.p \o <<"/">>, !.Children = res.list]
        d == IF res.err # "nil"
             THEN Served(c.req, c.p, WriteHeaders(<<NotFoundOr500(res.err)>>), NoBody, c.ops)
             ELSE Served(c.req, c.p, WriteHeaders(<<>>), [kind |-> "json", e |-> e], c.ops)
    IN [d EXCEPT !.listed = TRUE, !.args = ListArgs(c.req), !.list = res.list,
                 !.err = res.err, !.entries = c.entries]

\* dirHandler, GET
DirGet(w) ==
    \E frag \in Fragments : \E r \in DirGetRequests(frag) :
      LET ms == r.modSince
          chk == r.checkOnly
          p == osPath(frag)
          Listing(c, res) ==
            IF res.fin THEN Finish(w, Listed(c, res), fs)
            ELSE /\ pc' = [pc EXCEPT ![w] = "list"]
                 /\ inflight' = [inflight EXCEPT ![w] = c]
                 /\ stack' = [stack EXCEPT ![w] = res.st]
                 /\ UNCHANGED <<fs, done>>
          Read(rd) ==
            Listing([req |-> r, p |-> p, ops |-> <<Op("ReadDir", p, rd.err)>>,
                     entries |-> rd.entries],
                    listRead(rd, <<NewFrame(p)>>, ListArgs(r)))
          Get(log) ==
            IF p = <<>>
            THEN Finish(w, Served(r, p, WriteHeaders(<<>>),
                                  [kind |-> "raw", data |-> rootFlag], <<>>), fs)
            ELSE IF ModSinceSet(ms)
            THEN (IF ~exist(fs, p)
                  THEN Finish(w, Served(r, p, WriteHeaders(<<StatusNotFound>>), NoBody, log), fs)
                  ELSE \E m \in modifiedSince(fs, p) :
                         Finish(w, Served(r, p, WriteHeaders(<<IF m THEN StatusOK
                                                               ELSE StatusNotModified>>),
                                          NoBody, log \o log), fs))
            ELSE IF chk = "true"
            THEN Finish(w, Served(r, p, WriteHeaders(<<IF exist(fs, p) THEN StatusNoContent
                                                       ELSE StatusNotFound>>), NoBody, log), fs)
            ELSE Read(OsReadDir(fs, p))
      IN
      /\ Accepts(w)
      /\ served' = served + 1
      /\ IF ~isInRoot(p) THEN Finish(w, Forbidden(r, p), fs)
         ELSE Get(<<Op("Stat", p, Stat(fs, p).err)>>)

\* a listing in progress: the ReadDir of its innermost listDir call
ListStep(w) ==
    /\ pc[w] = "list"
    /\ done = NoResponse
    /\ LET path == Last(stack[w]).path
           Listing(c, res) ==
             IF res.fin THEN Finish(w, Listed(c, res), fs)
             ELSE /\ inflight' = [inflight EXCEPT ![w] = c]
                  /\ stack' = [stack EXCEPT ![w] = res.st]
                  /\ UNCHANGED <<fs, pc, done>>
           Read(rd) ==
             Listing([inflight[w] EXCEPT !.ops = Append(@, Op("ReadDir", path, rd.err))],
                     listRead(rd, stack[w], ListArgs(inflight[w].req)))
       IN Read(OsReadDir(fs, path))
    /\ UNCHANGED served

\* dirHandler, PUT: copy or move an existing directory
DirPut(w) ==
    \E frag \in Fragments, source \in DirSources, operation \in Operations :
      LET r == [Request("dir", "PUT", frag) EXCEPT !.sourceURI = source,
                                                   !.operation = operation]
          p == osPath(frag)
          Done(log, cm) ==
            Finish(w, Served(r, p, WriteHeaders(<<IF cm.err # "nil" THEN NotFoundOr500(cm.err)
                                                  ELSE StatusNoContent>>), NoBody,
                             log \o cm.ops), cm.fs)
          Tested(log) ==
            IF exist(fs, p) \/ operation \notin {"move", "copy"}
            THEN Finish(w, Served(r, p, WriteHeaders(<<StatusBadRequest>>), NoBody, log), fs)
            ELSE Done(log, IF operation = "move" THEN moveDir(fs, source, p)
                           ELSE copyDir(fs, source, p))
      IN
      /\ Accepts(w)
      /\ served' = served + 1
      /\ IF ~isInRoot(p) THEN Finish(w, Forbidden(r, p), fs)
         ELSE Tested(<<Op("Stat", p, Stat(fs, p).err)>>)

\* either handler with a method its switch has no case for: the path is
\* resolved and tested, and nothing else is done
Unhandled(w, r) ==
    LET p == osPath(r.frag) IN
    Finish(w, IF ~isInRoot(p) THEN Forbidden(r, p)
              ELSE Served(r, p, WriteHeaders(<<>>), NoBody, <<>>), fs)

OtherMethod(w) ==
    \E h \in {"file", "dir"}, frag \in Fragments :
      /\ Accepts(w)
      /\ served' = served + 1
      /\ Unhandled(w, Request(h, "OPTIONS", frag))

\* net/http sends the finished response to the client.  This touches nothing
\* a handler reads, so it is taken before any other step: done holds one
\* response, from the step that finished it to the next step
Deliver ==
    /\ done # NoResponse
    /\ done' = NoResponse
    /\ UNCHANGED <<fs, served, pc, inflight, stack>>

Next ==
    \/ Deliver
    \/ \E w \in Workers :
      \/ FilePost(w)
      \/ FilePutUpdate(w)
      \/ WriteStep(w)
      \/ FilePutCopyMove(w)
      \/ FileDelete(w)
      \/ FileGet(w)
      \/ DirPost(w)
      \/ DirDelete(w)
      \/ DirGet(w)
      \/ ListStep(w)
      \/ DirPut(w)
      \/ OtherMethod(w)

Spec == Init /\ [][Next]_vars

---------------------------------------------------------------------------
(* The path guard alone, over every fragment up to MaxFragLen: a CONNECT   *)
(* request reaches the handlers with its path as sent.                     *)

GuardAlphabet == {"/", ".", "r", "x"}

GuardFragments == UNION { [1..n -> GuardAlphabet] : n \in 0..MaxFragLen }

GuardStep ==
    \E h \in {"file", "dir"}, frag \in GuardFragments :
      /\ Unhandled("w1", Request(h, "CONNECT", frag))
      /\ UNCHANGED served

GuardSpec == Init /\ [][GuardStep]_vars

---------------------------------------------------------------------------
(* Properties *)

Responded == done # NoResponse

\* the handler went past its isInRoot test
Accepted == Responded /\ done.status # StatusForbidden

\* path is the root or lies below it, element by element
InsideRoot(path) == path = rootFlag \/ StringsHasPrefix(path, rootFlag \o <<"/">>)

\* the outermost listDir of the served request returned without error
ListedOk == Responded /\ done.listed /\ done.err = "nil"

Names(list) == { list[j].Name : j \in 1..Len(list) }

\* the rule of inclusion of §3, for a child d and the arguments a of listDir
Included(d, a) ==
    IF d.isDir THEN a.returnType \in {"directories", "all"}
    ELSE /\ a.returnType \in {"files", "all"}
         /\ \E k \in 1..Len(a.filter) : a.filter[k] = Ext(d.name)

\* C1: a path the guard accepts is, once lexically normalized, still inside
\* the root.  Inside is taken here as the program's own test of the
\* normalized path, so that what is asked is the normalization alone (the
\* alignment of that test on path elements is C2).
C1_Containment == Accepted => isInRoot(Clean(done.p))

\* C2: a path is accepted only if it is the root or starts with the root
\* followed by a separator.
C2_BoundaryAligned == Accepted => InsideRoot(done.p)

\* the paths a request derives from client input: that of the URL fragment
\* and the sourceURI header, when set
ClientPaths == {done.p} \cup (IF done.req.sourceURI # <<>> THEN {done.req.sourceURI} ELSE {})

\* C3: a request one of whose client-derived paths fails the containment
\* test is answered 403 and makes no filesystem call.
C3_GuardBeforeFs ==
    (Responded /\ \E q \in ClientPaths : ~isInRoot(q))
        => (done.status = StatusForbidden /\ done.ops = <<>>)

\* C4: a directory GET whose path is exactly the root is answered with the
\* root path as a raw string, and listDir is not called.
C4_RootEcho ==
    (Responded /\ done.req.handler = "dir" /\ done.req.method = "GET"
               /\ Clean(done.p) = Clean(rootFlag))
        => (done.body = [kind |-> "raw", data |-> rootFlag] /\ ~done.listed)

\* C5: in the result of a listing, a directory child appears iff returnType
\* is "directories" or "all", and a file child iff returnType is "files" or
\* "all" and its extension is a member of the filter.
C5_FilterSemantics ==
    ListedOk =>
        \A i \in 1..Len(done.entries) :
            LET d == done.entries[i] IN
            (\E j \in 1..Len(done.list) :
                /\ done.list[j].Name = d.name
                /\ done.list[j].Type = IF d.isDir THEN "directory" ELSE "file")
              <=> Included(d, done.args)

\* C5, its case: a.t, b.j and the directory d listed with filter [".t"] and
\* returnType "all" give a.t and d but not b.j.
C5_Witness ==
    /\ ListedOk
    /\ done.args.filter = << <<".", "t">> >>
    /\ done.args.returnType = "all"
    /\ {<<"a", ".", "t">>, <<"b", ".", "j">>, <<"d">>}
          \subseteq { done.entries[i].name : i \in 1..Len(done.entries) }
    /\ {<<"a", ".", "t">>, <<"d">>} \subseteq Names(done.list)
    /\ <<"b", ".", "j">> \notin Names(done.list)

\* C6: a listing whose file-filters header is empty or absent holds no file
\* entry, and with return-type "all" still every directory child.
C6_NoFilterNoFiles ==
    (ListedOk /\ done.req.filters = <<>>)
        => /\ \A j \in 1..Len(done.list) : done.list[j].Type # "file"
           /\ done.args.returnType = "all" =>
                \A i \in 1..Len(done.entries) :
                    done.entries[i].isDir => done.entries[i].name \in Names(done.list)

\* C7: when a directory read fails at any depth, the outermost listDir
\* returns its error with no entries and the handler writes no body.  An
\* entry is counted here when it names a child (the blank entries are C9's).
C7_AbortOnError ==
    (Responded /\ done.listed /\ done.err # "nil")
        => /\ \A j \in 1..Len(done.list) : done.list[j].Name = <<>>
           /\ done.body = NoBody

\* C8: a listing that meets a directory that does not exist is answered 404.
C8_NotFound404 ==
    (Responded /\ done.listed /\ IsNotExist(done.err)) => done.status = StatusNotFound

\* C9: the result of listDir holds exactly one entry per included child, in
\* the order read, and no blank entry.
C9_OneEntryPerChild ==
    ListedOk =>
        LET Inc(d) == Included(d, done.args)
            inc == SelectSeq(done.entries, Inc)
        IN /\ Len(done.list) = Len(inc)
           /\ \A i \in 1..Len(done.list) :
                /\ i <= Len(inc) => done.list[i].Name = inc[i].name
                /\ done.list[i].Type # ""
                /\ done.list[i].Name # <<>>

IsCreate(r) == r.handler = "file" /\ r.method = "POST"

\* C10 as claimed: the write of a POST create changes no file that exists
\* when it is made, whatever the interleaving.
C10_NeverOverwrites ==
    [][\A w \in Workers :
         (pc[w] = "write" /\ pc'[w] = "idle" /\ IsCreate(inflight[w].req))
           => LET k == Resolve(fs, inflight[w].p).key IN
              k \in DOMAIN fs => (k \in DOMAIN fs' /\ fs'[k] = fs[k])]_vars

\* C10 as amended: a POST create that finds the file at its existence test
\* is answered 400 and leaves the filesystem as it is; it goes on to its
\* write only when the test found no file; a write that succeeds is answered
\* 201 and stores the body of the request.
C10_CreateChecked ==
    [][/\ (done' # NoResponse /\ served' # served /\ IsCreate(done'.req)
             /\ done'.status # StatusForbidden)
          => (exist(fs, done'.p) /\ done'.status = StatusBadRequest /\ fs' = fs)
       /\ \A w \in Workers :
            /\ (pc[w] = "idle" /\ pc'[w] = "write" /\ IsCreate(inflight'[w].req))
                 => (~exist(fs, inflight'[w].p) /\ fs' = fs)
            /\ (pc[w] = "write" /\ pc'[w] = "idle" /\ IsCreate(inflight[w].req))
                 => /\ done'.status \in {StatusCreated, StatusInternalServerError}
                    /\ done'.status = StatusCreated =>
                         LET k == Resolve(fs', inflight[w].p).key IN
                         k \in DOMAIN fs' /\ fs'[k] = FileNode(inflight[w].req.body)]_vars

\* C10, its case: a POST create is about to write a path that a request
\* served since its existence test has created.
C10_Witness ==
    \E w \in Workers :
        /\ pc[w] = "write"
        /\ IsCreate(inflight[w].req)
        /\ inflight[w].ops[1].err = "ENOENT"
        /\ Resolve(fs, inflight[w].p).key \in DOMAIN fs

====
